---- MODULE Spec2Model ----
(***************************************************************************)
(* Judging pipeline of the online judge (src/ai4.py): execute_code,        *)
(* evaluate_submission, the post_save receiver                             *)
(* update_leaderboard_on_submission and Leaderboard.update_leaderboard.    *)
(*                                                                         *)
(* Strings are sequences of one-character strings.  A submission's code is *)
(* an opaque program, modelled by its input/output behaviour.              *)
(***************************************************************************)
EXTENDS Integers, Sequences, FiniteSets, TLC

VARIABLES
    code,        \* Submission.code, per submission: the program submitted
    owner,       \* Submission.user, per submission
    test_cases,  \* Problem.test_cases: sequence of [input, output]
    status,      \* Submission.status as persisted
    result,      \* Submission.result as persisted (<<>> is None, <<r>> is the list r)
    leaderboard, \* Leaderboard rows: function from the users that have a row to score
    credits,     \* per submission, how many times the receiver credited its user
    running,     \* per submission, containers started for it that are still running
    ops,         \* number of evaluate/save calls made so far
    ev,          \* record of the last evaluate/save call (what it saw and did)
    pc,          \* per worker, position inside evaluate_submission / update_leaderboard
    local,       \* per worker, leaderboard_entry.score held in the worker's memory
    cmp          \* one comparison of container logs against an expected output

vars == <<code, owner, test_cases, status, result, leaderboard, credits,
          running, ops, ev, pc, local, cmp>>

-----------------------------------------------------------------------------
(* Bounds *)

MaxOps == 2      \* evaluate/save calls in one behaviour of the sequential system
NumWorkers == 2  \* workers (one submission each) of the concurrent system
MaxLen == 3      \* length of the strings compared in the comparison system

Users == {"u1", "u2"}

-----------------------------------------------------------------------------
(* Strings and str.strip() *)

Whitespace == {" ", "\n"}

RECURSIVE lstrip(_)
lstrip(s) ==
    IF s = <<>> THEN <<>>
    ELSE IF Head(s) \in Whitespace THEN lstrip(Tail(s))
    ELSE s

RECURSIVE rstrip(_)
rstrip(s) ==
    IF s = <<>> THEN <<>>
    ELSE IF s[Len(s)] \in Whitespace THEN rstrip(SubSeq(s, 1, Len(s) - 1))
    ELSE s

strip(s) == rstrip(lstrip(s))

-----------------------------------------------------------------------------
(* Submitted programs *)

\* The programs a participant may submit, by behaviour:
\*   cat    copies its standard input to standard output, then a newline
\*   printa prints "a" and a newline whatever its input
\*   crash  raises at once; the traceback goes to standard error
\*   loop   never terminates and prints nothing
Codes == {"cat", "printa", "crash", "loop"}

Terminates(c) == c # "loop"

Crashes(c) == c = "crash"

\* What the container's log (stdout and stderr together) holds once the
\* program has run on standard input stdin.
RawOutput(c, stdin) ==
    CASE c = "cat"    -> stdin \o <<"\n">>
      [] c = "printa" -> <<"a", "\n">>
      [] c = "crash"  -> <<"t", "\n">>
      [] c = "loop"   -> <<>>

\* execute_code passes nothing of the test case to the container: the
\* program reads an empty standard input whatever the test case is.
ContainerStdin(input_data) == <<>>

-----------------------------------------------------------------------------
(* Test cases *)

Test(input_data, expected_output) == [input |-> input_data, output |-> expected_output]

\* Expected outputs: what printa prints, what cat prints on input "b", and
\* the text of the exception client.containers.run raises.
TestCases == {Test(<<"a">>, <<"a">>), Test(<<"b">>, <<"b">>), Test(<<"a">>, <<"e">>)}

\* Problem.test_cases: no case, one case, or two cases in either order.
Problems ==
    {<<>>} \cup {<<t>> : t \in TestCases} \cup {<<t, u>> : t \in TestCases, u \in TestCases}

-----------------------------------------------------------------------------
(* execute_code *)

Points == 10

\* str(e) of the exception raised by client.containers.run (backend
\* unavailable) and by container.logs.
RunErrorText == <<"e">>
LogsErrorText == <<"n">>

\* What the environment does to one call of execute_code:
\*   run_raises   client.containers.run raises, no container is started
\*   logs_raises  the container is started, container.logs raises
\*   logs_ok      the container is started detached and container.logs
\*                returns what it has written so far: the first k characters
\*                of its whole output
Envs(c, input_data) ==
    {[kind |-> "run_raises", k |-> 0], [kind |-> "logs_raises", k |-> 0]}
    \cup {[kind |-> "logs_ok", k |-> j] :
            j \in 0..Len(RawOutput(c, ContainerStdin(input_data)))}

RECURSIVE EnvSeqs(_, _)
EnvSeqs(c, tests) ==
    IF tests = <<>> THEN {<<>>}
    ELSE {<<e>> \o r : e \in Envs(c, Head(tests).input), r \in EnvSeqs(c, Tail(tests))}

ContainerLogs(c, input_data, env) ==
    SubSeq(RawOutput(c, ContainerStdin(input_data)), 1, env.k)

\* return logs.strip()
LogsReturn(logs) == strip(logs)

\* The value execute_code returns: the stripped logs, or str(e) when
\* anything inside the try block raised.
execute_code(c, input_data, env) ==
    CASE env.kind = "run_raises"  -> RunErrorText
      [] env.kind = "logs_raises" -> LogsErrorText
      [] env.kind = "logs_ok"     -> LogsReturn(ContainerLogs(c, input_data, env))

\* Number of containers the call started (detach=True: it is still running
\* when the call returns).
ContainersStarted(env) == IF env.kind = "run_raises" THEN 0 ELSE 1

-----------------------------------------------------------------------------
(* evaluate_submission: the loop over the test cases *)

\* The comparison of one case: actual_output != expected_output fails it.
CasePasses(actual_output, expected_output) == actual_output = expected_output

TestResult(test, actual_output) ==
    [input |-> test.input, expected |-> test.output, actual |-> actual_output]

RECURSIVE EvalLoop(_, _, _, _)
EvalLoop(c, tests, envs, acc) ==
    IF tests = <<>> THEN acc
    ELSE LET test == Head(tests)
             actual_output == execute_code(c, test.input, Head(envs))
         IN  EvalLoop(c, Tail(tests), Tail(envs),
                 [passed  |-> acc.passed /\ CasePasses(actual_output, test.output),
                  results |-> Append(acc.results, TestResult(test, actual_output)),
                  started |-> acc.started + ContainersStarted(Head(envs))])

Verdict(c, tests, envs) ==
    EvalLoop(c, tests, envs, [passed |-> TRUE, results |-> <<>>, started |-> 0])

VerdictStatus(passed) == IF passed THEN "accepted" ELSE "rejected"

-----------------------------------------------------------------------------
(* Leaderboard *)

Score(lb, user) == IF user \in DOMAIN lb THEN lb[user] ELSE 0

get_or_create(lb, user) == IF user \in DOMAIN lb THEN lb ELSE lb @@ (user :> 0)

update_leaderboard(lb, user, points) ==
    LET rows == get_or_create(lb, user)
    IN  [rows EXCEPT ![user] = rows[user] + points]

\* The receiver without its test of the status: every save credits.
update_leaderboard_on_any_save(lb, user, st) == update_leaderboard(lb, user, Points)

update_leaderboard_on_submission(lb, user, st) ==
    IF st = "accepted" THEN update_leaderboard(lb, user, Points) ELSE lb

ReceiverCredits(lb, user, st) ==
    IF update_leaderboard_on_submission(lb, user, st) = lb THEN 0 ELSE 1

\* Submission.save(): the row is written, then post_save runs the receiver.
SubmissionSave(s, st, res) ==
    /\ status' = [status EXCEPT ![s] = st]
    /\ result' = [result EXCEPT ![s] = res]
    /\ leaderboard' = update_leaderboard_on_submission(leaderboard, owner[s], st)
    /\ credits' = [credits EXCEPT ![s] = @ + ReceiverCredits(leaderboard, owner[s], st)]

-----------------------------------------------------------------------------
(* What a call met, recorded in ev *)

\* The execution of one case ended in a failure: the executor raised, the
\* program crashed, or the program never terminates.
CaseFailed(c, env) == env.kind # "logs_ok" \/ Crashes(c) \/ ~Terminates(c)

AnyFailure(c, envs) == \E i \in 1..Len(envs) : CaseFailed(c, envs[i])

BackendFault(envs) == \E i \in 1..Len(envs) : envs[i].kind = "run_raises"

\* Every case ran to the end and its whole output was read.
CleanRun(c, tests, envs) ==
    \A i \in 1..Len(envs) :
        /\ envs[i].kind = "logs_ok"
        /\ envs[i].k = Len(RawOutput(c, ContainerStdin(tests[i].input)))

NoCall ==
    [kind |-> "none", sub |-> 1, statusBefore |-> "pending", resultKept |-> TRUE,
     scoreBefore |-> 0, started |-> 0, failure |-> FALSE, backendFault |-> FALSE,
     clean |-> FALSE, raised |-> FALSE]

NoCmp == [logs |-> <<>>, expected |-> <<>>, passed |-> FALSE, done |-> FALSE]

-----------------------------------------------------------------------------
(* Sequential system: one submission, one call at a time *)

SeqSubs == {1}

\* The leaderboard before the call: empty, or one row per user left by a
\* submission of theirs accepted earlier.
InitialBoards == {<<>>, [u \in Users |-> Points]}

InitSys(subs) ==
    /\ code \in [subs -> Codes]
    /\ owner \in [subs -> Users]
    /\ test_cases \in Problems
    /\ status = [s \in subs |-> "pending"]
    /\ result = [s \in subs |-> <<>>]
    /\ credits = [s \in subs |-> 0]
    /\ running = [s \in subs |-> 0]
    /\ ops = 0
    /\ ev = NoCall
    /\ pc = [s \in subs |-> "idle"]
    /\ local = [s \in subs |-> 0]
    /\ cmp = NoCmp

Init == InitSys(SeqSubs) /\ leaderboard \in InitialBoards

\* evaluate_submission(submission), the whole call, with the environment's
\* part drawn: what each execute_code meets and whether submission.save()
\* succeeds.  A failing save raises to the caller and persists nothing.
Evaluate(s) ==
    /\ ops < MaxOps
    /\ \E envs \in EnvSeqs(code[s], test_cases), saveOk \in BOOLEAN :
         LET v == Verdict(code[s], test_cases, envs)
         IN  /\ IF saveOk
                THEN SubmissionSave(s, VerdictStatus(v.passed), <<v.results>>)
                ELSE UNCHANGED <<status, result, leaderboard, credits>>
             /\ running' = [running EXCEPT ![s] = @ + v.started]
             /\ ev' = [kind |-> "evaluate", sub |-> s,
                       statusBefore |-> status[s], resultKept |-> result'[s] = result[s],
                       scoreBefore |-> Score(leaderboard, owner[s]),
                       started |-> v.started,
                       failure |-> AnyFailure(code[s], envs),
                       backendFault |-> BackendFault(envs),
                       clean |-> CleanRun(code[s], test_cases, envs),
                       raised |-> ~saveOk]
    /\ ops' = ops + 1
    /\ UNCHANGED <<code, owner, test_cases, pc, local, cmp>>

\* Any other save of a stored Submission (an edit, an admin action): the
\* row is rewritten as it is and post_save runs the receiver again.
Save(s) ==
    /\ ops < MaxOps
    /\ SubmissionSave(s, status[s], result[s])
    /\ ev' = [NoCall EXCEPT !.kind = "save", !.sub = s,
                            !.statusBefore = status[s],
                            !.scoreBefore = Score(leaderboard, owner[s])]
    /\ ops' = ops + 1
    /\ UNCHANGED <<code, owner, test_cases, running, pc, local, cmp>>

\* A container whose program ends is removed by the daemon (remove=True).
\* Nothing stops a container whose program does not end.
ContainerExit(s) ==
    /\ running[s] > 0
    /\ Terminates(code[s])
    /\ running' = [running EXCEPT ![s] = @ - 1]
    /\ UNCHANGED <<code, owner, test_cases, status, result, leaderboard, credits,
                   ops, ev, pc, local, cmp>>

Next ==
    \/ \E s \in DOMAIN status : Evaluate(s)
    \/ \E s \in DOMAIN status : Save(s)
    \/ \E s \in DOMAIN status : ContainerExit(s)

Spec == Init /\ [][Next]_vars

-----------------------------------------------------------------------------
(* Concurrent system: workers judge one submission each; the three        *)
(* statements of Leaderboard.update_leaderboard interleave                 *)

Workers == 1..NumWorkers

InitConc == InitSys(Workers) /\ leaderboard = <<>>

\* evaluate_submission up to and including the write of the row by
\* submission.save(); post_save then enters the receiver.
WJudge(s) ==
    /\ pc[s] = "idle"
    /\ \E envs \in EnvSeqs(code[s], test_cases), saveOk \in BOOLEAN :
         LET v == Verdict(code[s], test_cases, envs)
             st == VerdictStatus(v.passed)
         IN  /\ IF saveOk
                THEN /\ status' = [status EXCEPT ![s] = st]
                     /\ result' = [result EXCEPT ![s] = <<v.results>>]
                     /\ pc' = [pc EXCEPT ![s] =
                                 IF ReceiverCredits(leaderboard, owner[s], st) = 1
                                 THEN "get" ELSE "done"]
                ELSE /\ UNCHANGED <<status, result>>
                     /\ pc' = [pc EXCEPT ![s] = "done"]
             /\ running' = [running EXCEPT ![s] = @ + v.started]
    /\ UNCHANGED <<code, owner, test_cases, leaderboard, credits, ops, ev, local, cmp>>

\* leaderboard_entry, created = Leaderboard.objects.get_or_create(user=user)
WGet(s) ==
    /\ pc[s] = "get"
    /\ leaderboard' = get_or_create(leaderboard, owner[s])
    /\ local' = [local EXCEPT ![s] = leaderboard'[owner[s]]]
    /\ pc' = [pc EXCEPT ![s] = "add"]
    /\ UNCHANGED <<code, owner, test_cases, status, result, credits, running, ops, ev, cmp>>

\* leaderboard_entry.score += points
WAdd(s) ==
    /\ pc[s] = "add"
    /\ local' = [local EXCEPT ![s] = @ + Points]
    /\ pc' = [pc EXCEPT ![s] = "save"]
    /\ UNCHANGED <<code, owner, test_cases, status, result, leaderboard, credits,
                   running, ops, ev, cmp>>

\* leaderboard_entry.save(): the row takes the score held by the worker
WSave(s) ==
    /\ pc[s] = "save"
    /\ leaderboard' = [leaderboard EXCEPT ![owner[s]] = local[s]]
    /\ credits' = [credits EXCEPT ![s] = @ + 1]
    /\ pc' = [pc EXCEPT ![s] = "done"]
    /\ UNCHANGED <<code, owner, test_cases, status, result, running, ops, ev, local, cmp>>

NextConc ==
    \/ \E s \in DOMAIN status : WJudge(s)
    \/ \E s \in DOMAIN status : WGet(s)
    \/ \E s \in DOMAIN status : WAdd(s)
    \/ \E s \in DOMAIN status : WSave(s)
    \/ \E s \in DOMAIN status : ContainerExit(s)

SpecConc == InitConc /\ [][NextConc]_vars

-----------------------------------------------------------------------------
(* Comparison system: one log text against one expected output *)

Alphabet == {"a", " ", "\n"}

RECURSIVE SeqsUpTo(_, _)
SeqsUpTo(S, n) ==
    IF n = 0 THEN {<<>>}
    ELSE LET shorter == SeqsUpTo(S, n - 1)
         IN  shorter \cup {Append(q, x) : q \in {r \in shorter : Len(r) = n - 1}, x \in S}

Strs == SeqsUpTo(Alphabet, MaxLen)

InitCmp ==
    /\ code = [s \in SeqSubs |-> "printa"]
    /\ owner = [s \in SeqSubs |-> "u1"]
    /\ test_cases = <<>>
    /\ status = [s \in SeqSubs |-> "pending"]
    /\ result = [s \in SeqSubs |-> <<>>]
    /\ leaderboard = <<>>
    /\ credits = [s \in SeqSubs |-> 0]
    /\ running = [s \in SeqSubs |-> 0]
    /\ ops = 0
    /\ ev = NoCall
    /\ pc = [s \in SeqSubs |-> "idle"]
    /\ local = [s \in SeqSubs |-> 0]
    /\ cmp \in [logs : Strs, expected : Strs, passed : {FALSE}, done : {FALSE}]

\* One iteration of the loop of evaluate_submission on a container that
\* wrote cmp.logs, for a test case whose expected output is cmp.expected.
Compare ==
    /\ ~cmp.done
    /\ cmp' = [cmp EXCEPT !.passed = CasePasses(LogsReturn(cmp.logs), cmp.expected),
                          !.done = TRUE]
    /\ UNCHANGED <<code, owner, test_cases, status, result, leaderboard, credits,
                   running, ops, ev, pc, local>>

NextCmp == Compare

SpecCmp == InitCmp /\ [][NextCmp]_vars

-----------------------------------------------------------------------------
(* Properties *)

Terminal == {"accepted", "rejected"}

Evaluated == ev.kind = "evaluate"

\* The results evaluate_submission stored for submission s.
Stored(s) == result[s][1]

AllCasesPassed(r) == \A i \in 1..Len(r) : r[i].actual = r[i].expected

\* The submitted program, run on each test case's own input, prints that
\* case's expected output.
ProgramSolves(c, tests) ==
    /\ Terminates(c)
    /\ ~Crashes(c)
    /\ \A i \in 1..Len(tests) : strip(RawOutput(c, tests[i].input)) = tests[i].output

\* C1 (Spec): the receiver credits the user of a submission at most once,
\* whatever evaluations and saves of that submission happen.
CreditedAtMostOnce == \A s \in DOMAIN credits : credits[s] <= 1

\* C2 (Spec): after evaluate_submission has judged a pending submission and
\* saved it, there is one stored result per test case of the problem; if
\* every case passed its comparison the status is accepted and the user's
\* score is 10 more than before the call; if some case failed the status is
\* rejected and the score is what it was.  No test case means accepted.
JudgingVerdictAndScore ==
    (Evaluated /\ ev.statusBefore = "pending" /\ ~ev.raised) =>
        LET s == ev.sub
            r == Stored(s)
            now == Score(leaderboard, owner[s])
        IN  /\ Len(r) = Len(test_cases)
            /\ \A i \in 1..Len(r) : r[i].expected = test_cases[i].output
            /\ AllCasesPassed(r) =>
                 (status[s] = "accepted" /\ now = ev.scoreBefore + Points)
            /\ ~AllCasesPassed(r) =>
                 (status[s] = "rejected" /\ now = ev.scoreBefore)

\* A pending submission with two test cases was judged, both cases passed,
\* and the user's score went from 10 to 20.
JudgingAcceptedWitness ==
    /\ Evaluated /\ ev.statusBefore = "pending" /\ ~ev.raised
    /\ Len(test_cases) > 1
    /\ AllCasesPassed(Stored(ev.sub))
    /\ status[ev.sub] = "accepted"
    /\ ev.scoreBefore = Points
    /\ Score(leaderboard, owner[ev.sub]) = Points + Points

\* C3 (Spec): evaluate_submission on a submission whose status is already
\* accepted or rejected changes neither its status, nor its result, nor the
\* user's score, and starts no container.
RejudgeIsNoOp ==
    (Evaluated /\ ev.statusBefore \in Terminal) =>
        /\ status[ev.sub] = ev.statusBefore
        /\ ev.resultKept
        /\ Score(leaderboard, owner[ev.sub]) = ev.scoreBefore
        /\ ev.started = 0

\* C4 (Spec): once the persisted status of a submission is accepted or
\* rejected, no step changes it.
TerminalStatusKept ==
    [][\A s \in DOMAIN status : status[s] \in Terminal => status'[s] = status[s]]_vars

\* C5 (SpecConc): once every worker has finished, each user's score is 10
\* times the number of that user's accepted submissions.
NoLostCredit ==
    (\A s \in DOMAIN pc : pc[s] = "done") =>
        \A u \in Users :
            Score(leaderboard, u) =
                Points * Cardinality({s \in DOMAIN status :
                                         owner[s] = u /\ status[s] = "accepted"})

\* C6 (Spec): when the execution of some test case ended in a failure (the
\* executor raised, the program crashed or never terminates) and
\* evaluate_submission returned, the status is rejected.
SandboxFailureRejects ==
    (Evaluated /\ ev.failure /\ ~ev.raised) => status[ev.sub] = "rejected"

\* C7 (Spec): when, while a pending submission is judged, starting the
\* container raises or the save fails, the fault reaches the caller and the
\* persisted status stays pending with no result.
InfrastructureFaultKeepsPending ==
    (Evaluated /\ ev.statusBefore = "pending" /\ (ev.backendFault \/ ev.raised)) =>
        /\ ev.raised
        /\ status[ev.sub] = "pending"
        /\ result[ev.sub] = <<>>

\* C8 (Spec): after evaluate_submission has returned, no container started
\* for the submission is left running for ever: one that is still running
\* is running a program that ends (and is then removed).
NoContainerLeftRunning ==
    Evaluated => (running[ev.sub] > 0 => Terminates(code[ev.sub]))

\* C9 (SpecCmp): a case passes exactly when the logs and the expected
\* output are equal after both are stripped of leading and trailing
\* whitespace.
PassesIffBothTrimmedEqual ==
    cmp.done => (cmp.passed <=> strip(cmp.logs) = strip(cmp.expected))

\* C10 (Spec): after a judging in which every container ran to its end and
\* its whole output was read, the stored results are those of the test
\* cases, one per case in their order, and a program that prints each
\* case's expected output on that case's input is accepted.
CorrectProgramAccepted ==
    (Evaluated /\ ~ev.raised /\ ev.clean) =>
        LET s == ev.sub
            r == Stored(s)
        IN  /\ Len(r) = Len(test_cases)
            /\ \A i \in 1..Len(r) :
                 r[i].input = test_cases[i].input /\ r[i].expected = test_cases[i].output
            /\ ProgramSolves(code[s], test_cases) => status[s] = "accepted"

====
